---- MODULE Spec2Model ----
(***************************************************************************)
(* The blog-post REST service of src/server.js: the persistence            *)
(* initializer (initializeDatabase, startServer) and the four route        *)
(* handlers on the posts table, each a chain of sqlite3 callbacks.         *)
(*                                                                         *)
(* A statement submitted with db.run / db.get / db.all executes later, on  *)
(* the single shared connection, and its callback runs after it.  One      *)
(* action of the model is one turn of the event loop: a route handler up   *)
(* to the statement it submits, or a statement's execution together with   *)
(* the callback that consumes its result.  Statements of different         *)
(* requests execute in any order.                                          *)
(***************************************************************************)
EXTENDS Integers, Sequences, FiniteSets, TLC

(* ------------------------------ bounds --------------------------------- *)

\* the largest rowid the model lets the table allocate
MaxId == 3
\* the last second the model's clock reaches
MaxClock == 1

\* CURRENT_TIMESTAMP, read by a statement when the last reading was t: the
\* clock does not go backwards
Clock(t) == t..MaxClock
\* the number of requests the model accepts in one run
MaxRequests == 2

\* the requests in flight at once
Slots == {1, 2}

(* ------------------------------ values --------------------------------- *)

\* a property missing from a JSON body (JavaScript's undefined)
Undefined == "undefined"
\* parseInt's NaN; the id strings of the model carry no sign
NaN == -1

\* an unset `row` (db.get found nothing), in the shape of a row
NoRow ==
    [id |-> 0, title |-> "", content |-> "", author |-> "",
     created_at |-> 0, updated_at |-> 0]
\* no Post in a response body, in the shape of a Post
NoPost ==
    [id |-> 0, title |-> "", content |-> "", author |-> "",
     createdAt |-> 0, updatedAt |-> 0]
NoBody == [title |-> Undefined, content |-> Undefined, author |-> Undefined]

\* the JSON bodies clients send
Bodies ==
    { [title |-> "Hello", content |-> "World content here", author |-> Undefined],
      [title |-> "Hello", content |-> "World content here", author |-> ""],
      [title |-> "Edited", content |-> "Changed", author |-> "Bob"],
      [title |-> "", content |-> "World content here", author |-> "Bob"],
      [title |-> "Hello", content |-> Undefined, author |-> Undefined] }

\* the :id path segments clients send, as sequences of characters
IdParams ==
    { <<"2">>, <<"0", ".", "1", "e", "1">> }

\* the sources of the service: the server and its earlier draft
Revisions == {"server.js", "part_000"}

\* the CREATE TABLE text is SQL: the draft misspells AUTOINCREMENT, and SQLite
\* rejects the statement whether or not the table exists
SchemaParses(b) == b = "server.js"

\* the offsets (local time minus UTC, in clock units) the process runs under
TzOffsets == {1}

\* the databases a run may find on disk: none yet; the table of an earlier run
\* with its seed post and one more
InitialDatabases ==
    { [posts |-> {}, seq |-> 0],
      [posts |-> { [id |-> 1, title |-> "Welcome to My Blog",
                    content |-> "This is my first blog post!",
                    author |-> "Blog Owner",
                    created_at |-> 0, updated_at |-> 0],
                   [id |-> 2, title |-> "Hello",
                    content |-> "World content here",
                    author |-> "Bob",
                    created_at |-> 0, updated_at |-> 0] },
       seq |-> 2] }

(* ----------------------- JavaScript and SQLite ------------------------- *)

\* !v for the values a body property takes here
Falsy(v) == v \in {Undefined, ""}

\* author || 'Anonymous'
OrAnonymous(author) == IF Falsy(author) THEN "Anonymous" ELSE author

DigitChars == <<"0", "1", "2", "3", "4", "5", "6", "7", "8", "9">>
IsDigit(c) == \E d \in 1..10 : DigitChars[d] = c
DigitValue(c) == (CHOOSE d \in 1..10 : DigitChars[d] = c) - 1

\* the end (exclusive) of the run of digits of s that starts at i
RECURSIVE ScanDigits(_, _)
ScanDigits(s, i) ==
    IF i <= Len(s) /\ IsDigit(s[i]) THEN ScanDigits(s, i + 1) ELSE i

\* the decimal value of s[i..j-1], 0 when empty
RECURSIVE Decimal(_, _, _)
Decimal(s, i, j) ==
    IF j <= i THEN 0 ELSE 10 * Decimal(s, i, j - 1) + DigitValue(s[j - 1])

RECURSIVE Pow10(_)
Pow10(n) == IF n <= 0 THEN 1 ELSE 10 * Pow10(n - 1)

\* parseInt(s): the leading decimal digits of s, NaN when there are none
parseInt(s) ==
    LET j == ScanDigits(s, 1)
    IN  IF j = 1 THEN NaN ELSE Decimal(s, 1, j)

\* SQLite's numeric reading of a text value: digits [. digits] [e digits],
\* the whole text; the value is mant * 10^scale
SqlNumeric(s) ==
    LET a       == ScanDigits(s, 1)
        hasDot  == a <= Len(s) /\ s[a] = "."
        b       == IF hasDot THEN ScanDigits(s, a + 1) ELSE a
        nInt    == a - 1
        nFrac   == IF hasDot THEN b - (a + 1) ELSE 0
        hasExp  == b <= Len(s) /\ s[b] = "e"
        c       == IF hasExp THEN ScanDigits(s, b + 1) ELSE b
        exp     == IF hasExp THEN Decimal(s, b + 1, c) ELSE 0
        frac    == IF hasDot THEN Decimal(s, a + 1, b) ELSE 0
    IN  [ok    |-> /\ nInt + nFrac > 0
                   /\ (hasExp => c > b + 1)
                   /\ c = Len(s) + 1,
         mant  |-> Decimal(s, 1, a) * Pow10(nFrac) + frac,
         scale |-> exp - nFrac]

\* WHERE id = ? with a text parameter: the column's INTEGER affinity turns a
\* well-formed numeric text into a number before the comparison
IdMatches(rowid, param) ==
    LET n == SqlNumeric(param)
    IN  /\ n.ok
        /\ IF n.scale >= 0
           THEN rowid = n.mant * Pow10(n.scale)
           ELSE rowid * Pow10(0 - n.scale) = n.mant

SetMax(S) == IF S = {} THEN 0 ELSE CHOOSE m \in S : \A x \in S : x <= m

RowIds(table) == { r.id : r \in table }

\* the rowid INSERT assigns, were the column declared without AUTOINCREMENT
NextRowidOfTable(table, sequence) == SetMax(RowIds(table)) + 1

\* the rowid INSERT assigns to an INTEGER PRIMARY KEY AUTOINCREMENT column:
\* one more than the largest rowid the table has ever held
NextRowid(table, sequence) ==
    (IF SetMax(RowIds(table)) > sequence THEN SetMax(RowIds(table)) ELSE sequence) + 1

(* ------------------------------- rows ---------------------------------- *)

\* new Date(row.created_at).toISOString(): SQLite's CURRENT_TIMESTAMP text is
\* UTC without a zone, Date reads it as local time, toISOString prints UTC
ToISOString(ts, offset) == ts - offset

\* the Post a handler builds from a row
RowToPost(row, offset) ==
    [id |-> row.id, title |-> row.title, content |-> row.content,
     author |-> row.author,
     createdAt |-> ToISOString(row.created_at, offset),
     updatedAt |-> ToISOString(row.updated_at, offset)]

\* if (!title), the check of content forgotten
InvalidTitleOnly(body) == Falsy(body.title)

\* if (!title || !content)
Invalid(body) == Falsy(body.title) \/ Falsy(body.content)

\* INSERT INTO posts (title, content, author, created_at, updated_at)
\* VALUES (?, ?, ?, CURRENT_TIMESTAMP, CURRENT_TIMESTAMP)
InsertedRow(rowid, title, content, author, t) ==
    [id |-> rowid, title |-> title, content |-> content, author |-> author,
     created_at |-> t, updated_at |-> t]

\* SET ..., created_at = CURRENT_TIMESTAMP: the wrong timestamp column bumped
UpdatedRowBumpsCreated(row, body, t) ==
    [row EXCEPT !.title = body.title, !.content = body.content,
                !.author = OrAnonymous(body.author), !.created_at = t]

\* SET title = ?, content = ?, author = ?, updated_at = CURRENT_TIMESTAMP
UpdatedRow(row, body, t) ==
    [row EXCEPT !.title = body.title, !.content = body.content,
                !.author = OrAnonymous(body.author), !.updated_at = t]

\* the rows WHERE id = ? selects
Matching(table, param) == { r \in table : IdMatches(r.id, param) }

\* this.changes after an UPDATE or a DELETE: the rows the statement touched
Changes(table, param) == Cardinality(Matching(table, param))

\* else if (this.changes === 0), with the branch left out
NotFoundNever(changes) == FALSE

\* else if (this.changes === 0)
NotFound(changes) == changes = 0

\* UPDATE posts SET ... WHERE id = ?
UpdateAllRows(table, param, body, t) ==
    { UpdatedRow(r, body, t) : r \in table }

\* UPDATE posts SET ... WHERE id = ?
UpdateRows(table, param, body, t) ==
    { IF IdMatches(r.id, param) THEN UpdatedRow(r, body, t) ELSE r : r \in table }

\* a DELETE that removes nothing
DeleteNoRows(table, param) == table

\* DELETE FROM posts WHERE id = ?
DeleteRows(table, param) == table \ Matching(table, param)

\* db.get('SELECT * FROM posts WHERE id = ?'): the row, or none
GetById(table, rowid) ==
    IF \E r \in table : r.id = rowid
    THEN CHOOSE r \in table : r.id = rowid
    ELSE NoRow

\* db.get with the :id text of the path
GetByParam(table, param) ==
    IF Matching(table, param) # {}
    THEN CHOOSE r \in Matching(table, param) : TRUE
    ELSE NoRow

\* SELECT * FROM posts ORDER BY created_at DESC LIMIT 1: only the first row
OrderByCreatedAtDescLimitOne(table) ==
    { s \in UNION { [1..n -> table] : n \in 0..1 } :
        /\ Len(s) = (IF table = {} THEN 0 ELSE 1)
        /\ \A i \in 1..Len(s) : \A r \in table : s[i].created_at >= r.created_at }

\* SELECT * FROM posts ORDER BY created_at: the direction forgotten
OrderByCreatedAtAsc(table) ==
    { s \in [1..Cardinality(table) -> table] :
        /\ \A i, j \in 1..Cardinality(table) : i # j => s[i] # s[j]
        /\ \A i, j \in 1..Cardinality(table) :
             i < j => s[i].created_at <= s[j].created_at }

\* SELECT * FROM posts ORDER BY created_at DESC: every order of the rows the
\* clause allows; rows of equal created_at come in an order SQL leaves open
OrderByCreatedAtDesc(table) ==
    { s \in [1..Cardinality(table) -> table] :
        /\ \A i, j \in 1..Cardinality(table) : i # j => s[i] # s[j]
        /\ \A i, j \in 1..Cardinality(table) :
             i < j => s[i].created_at >= s[j].created_at }

\* rows.map(row => ({...}))
RowsToPosts(rows, offset) == [i \in 1..Len(rows) |-> RowToPost(rows[i], offset)]

(* ------------------------------- state --------------------------------- *)

VARIABLES
    phase,      \* where startServer is: "open", "createTable", "count", "seed",
                \* "resolved", "listening", "exited" (process.exit(1)),
                \* "crashed" (an exception no one catches)
    db,         \* the module's `let db`: TRUE once assigned
    posts,      \* the posts table: a set of rows
    seq,        \* sqlite_sequence: the largest rowid the table ever allocated
    now,        \* the server clock, in seconds, when a statement last read it
    tz,         \* the process's local-time offset
    reqs,       \* the requests in flight, by slot
    last,       \* the latest response sent
    nReq,       \* requests accepted in this run
    nCreated,   \* INSERTs of the create handler that succeeded in this run
    nDeleted,   \* DELETEs that removed a row in this run
    everIds,    \* the ids of all the rows the table has held in this run
    removed,    \* the ids of the rows DELETE has removed in this run
    build,      \* the source file the process runs
    initError,  \* the step of initializeDatabase that failed, "" when none has
    exit        \* the exit codes of the process: none while it runs

vars ==
    <<phase, db, posts, seq, now, tz, reqs, last, nReq, nCreated, nDeleted,
      everIds, removed, build, initError, exit>>

history == <<nCreated, nDeleted, everIds, removed>>

Idle ==
    [method |-> "NONE", pc |-> "idle", id |-> <<>>, body |-> NoBody,
     lastID |-> 0, prev |-> NoRow, stored |-> NoRow, topDeleted |-> FALSE]

NoResponse ==
    [method |-> "NONE", status |-> 0, id |-> <<>>, body |-> NoBody,
     error |-> "", message |-> "", post |-> NoPost, list |-> <<>>,
     deleted |-> 0, prev |-> NoRow, stored |-> NoRow, gone |-> {},
     topDeleted |-> FALSE, again |-> FALSE, cause |-> ""]

\* the response to the request in slot s, before its payload is filled in
ResponseTo(r, status) ==
    [NoResponse EXCEPT !.method = r.method, !.status = status, !.id = r.id,
                       !.body = r.body, !.prev = r.prev, !.stored = r.stored,
                       !.topDeleted = r.topDeleted,
                       !.again = /\ r.method = "DELETE"
                                 /\ last.method = "DELETE"
                                 /\ last.status = 200
                                 /\ last.id = r.id]

\* res.status(code).json({ error: text })
ErrorTo(r, status, text) == [ResponseTo(r, status) EXCEPT !.error = text]

\* the err a failed statement hands to its callback
DriverError == "SQLITE_IOERR: disk I/O error"

\* the body's error property when a statement failed with err: the handler's
\* own text
LeakedError(text, err) == err
GenericError(text, err) == text

\* if (err) { console.error(...); res.status(500).json({ error: text }) }
StorageError(r, text) ==
    [ErrorTo(r, 500, GenericError(text, DriverError)) EXCEPT
         !.cause = DriverError]

Inflight == { s \in Slots : reqs[s].pc # "idle" }

\* app.listen has been called: startServer calls it after the await
ServingAlways == TRUE
Serving == phase = "listening"

\* a request is accepted while the server listens; it takes the first free slot
Accepts(s) ==
    /\ Serving
    /\ nReq < MaxRequests
    /\ reqs[s].pc = "idle"
    /\ \A u \in Slots : u < s => reqs[u].pc # "idle"

Init ==
    /\ phase = "open"
    /\ db = FALSE
    /\ \E d \in InitialDatabases : posts = d.posts /\ seq = d.seq
    /\ now = 0
    /\ tz \in TzOffsets
    /\ reqs = [s \in Slots |-> Idle]
    /\ last = NoResponse
    /\ nReq = 0
    /\ nCreated = 0
    /\ nDeleted = 0
    /\ everIds = RowIds(posts)
    /\ removed = {}
    /\ build \in Revisions
    /\ initError = ""
    /\ exit = {}

(* ------------------------------ startup -------------------------------- *)

\* the steps of the initializer's first turn that can fail: the draft has no
\* fs.mkdirSync
OpenSteps(b) == IF b = "server.js" THEN {"mkdir", "open"} ELSE {"open"}

\* where a failed step leaves the draft.  It names the executor's parameter
\* `rejects`: its open callback rejects the promise, its later callbacks call
\* `reject`, which is not defined, and the ReferenceError thrown inside the
\* callback ends the process
DraftAbort(step) == IF step = "open" THEN "exited" ELSE "crashed"

\* where a failed step leaves the process: reject(err), or the throw of
\* mkdirSync inside the executor, rejects the promise and startServer's catch
\* calls process.exit(1)
AbortRetries(b, step) == "open"
Abort(b, step) == IF b = "part_000" THEN DraftAbort(step) ELSE "exited"

\* row.count === 0
NeedsSeedAlways(count) == TRUE
NeedsSeed(count) == count = 0

\* fs.mkdirSync and new sqlite3.Database(DB_PATH, callback)
OpenDatabase ==
    /\ phase = "open"
    /\ \/ /\ phase' = "createTable"
          /\ UNCHANGED <<initError, exit>>
       \/ \E step \in OpenSteps(build) :
            /\ phase' = Abort(build, step)
            /\ initError' = step
            /\ exit' = {1}
    /\ UNCHANGED <<db, posts, seq, now, tz, reqs, last, nReq, history, build>>

\* CREATE TABLE IF NOT EXISTS posts (...)
CreateTable ==
    /\ phase = "createTable"
    /\ \/ /\ SchemaParses(build)
          /\ phase' = "count"
          /\ UNCHANGED <<initError, exit>>
       \/ /\ phase' = Abort(build, "createTable")
          /\ initError' = "createTable"
          /\ exit' = {1}
    /\ UNCHANGED <<db, posts, seq, now, tz, reqs, last, nReq, history, build>>

\* SELECT COUNT(*) as count FROM posts
CountRows ==
    /\ phase = "count"
    /\ \/ /\ phase' = IF NeedsSeed(Cardinality(posts)) THEN "seed"
                      ELSE "resolved"
          /\ UNCHANGED <<initError, exit>>
       \/ /\ phase' = Abort(build, "count")
          /\ initError' = "count"
          /\ exit' = {1}
    /\ UNCHANGED <<db, posts, seq, now, tz, reqs, last, nReq, history, build>>

\* the INSERT of the initial post
SeedInsert ==
    /\ phase = "seed"
    /\ \/ /\ phase' = "resolved"
          /\ now' \in Clock(now)
          /\ posts' = posts \cup
               { InsertedRow(NextRowid(posts, seq), "Welcome to My Blog",
                             "This is my first blog post!", "Blog Owner", now') }
          /\ seq' = NextRowid(posts, seq)
          /\ everIds' = everIds \cup {NextRowid(posts, seq)}
          /\ UNCHANGED <<initError, exit>>
       \/ /\ phase' = Abort(build, "seed")
          /\ initError' = "seed"
          /\ exit' = {1}
          /\ UNCHANGED <<posts, seq, now, everIds>>
    /\ UNCHANGED <<db, tz, reqs, last, nReq, nCreated, nDeleted, removed, build>>

\* db = await initializeDatabase(); app.listen(PORT, ...)
StartListening ==
    /\ phase = "resolved"
    /\ db' = TRUE
    /\ phase' = "listening"
    /\ UNCHANGED <<posts, seq, now, tz, reqs, last, nReq, history, build,
                   initError, exit>>

(* --------------------------- POST /api/posts --------------------------- *)

\* the handler: validation, then db.run(INSERT ...)
PostReceive(s, body) ==
    /\ Accepts(s)
    /\ nReq' = nReq + 1
    /\ LET r == [Idle EXCEPT !.method = "POST", !.body = body]
       IN  IF Invalid(body)
           THEN /\ last' = ErrorTo(r, 400, "Title and content are required")
                /\ UNCHANGED reqs
           ELSE /\ reqs' = [reqs EXCEPT ![s] = [r EXCEPT !.pc = "run"]]
                /\ UNCHANGED last
    /\ UNCHANGED <<phase, db, posts, seq, now, tz, history, build, initError, exit>>

\* the INSERT executes and its callback runs
PostRun(s) ==
    /\ phase = "listening"
    /\ reqs[s].method = "POST" /\ reqs[s].pc = "run"
    /\ NextRowid(posts, seq) <= MaxId
    /\ \E err \in BOOLEAN :
         IF err
         THEN /\ last' = StorageError(reqs[s], "Failed to create post")
              /\ reqs' = [reqs EXCEPT ![s] = Idle]
              /\ UNCHANGED <<posts, seq, now, history>>
         ELSE LET postId == NextRowid(posts, seq)
                  row    == InsertedRow(postId, reqs[s].body.title,
                                        reqs[s].body.content,
                                        OrAnonymous(reqs[s].body.author), now')
              IN  /\ now' \in Clock(now)
                  /\ posts' = posts \cup {row}
                  /\ seq' = postId
                  /\ reqs' = [reqs EXCEPT ![s].pc = "get", ![s].lastID = postId,
                                          ![s].stored = row,
                                          ![s].topDeleted =
                                              SetMax(everIds) \in removed]
                  /\ nCreated' = nCreated + 1
                  /\ everIds' = everIds \cup {postId}
                  /\ UNCHANGED <<last, nDeleted, removed>>
    /\ UNCHANGED <<phase, db, tz, nReq, build, initError, exit>>

\* the read-back SELECT executes and its callback runs; with no row, row.id
\* throws inside the callback and nothing catches it
PostGet(s) ==
    /\ phase = "listening"
    /\ reqs[s].method = "POST" /\ reqs[s].pc = "get"
    /\ \E err \in BOOLEAN :
         IF err
         THEN /\ last' = StorageError(reqs[s], "Failed to fetch created post")
              /\ reqs' = [reqs EXCEPT ![s] = Idle]
              /\ UNCHANGED <<phase, exit>>
         ELSE LET row == GetById(posts, reqs[s].lastID)
              IN  IF row = NoRow
                  THEN /\ phase' = "crashed"
                       /\ exit' = {1}
                       /\ UNCHANGED <<reqs, last>>
                  ELSE /\ last' = [ResponseTo(reqs[s], 201) EXCEPT
                                       !.post = RowToPost(row, tz)]
                       /\ reqs' = [reqs EXCEPT ![s] = Idle]
                       /\ UNCHANGED <<phase, exit>>
    /\ UNCHANGED <<db, posts, seq, now, tz, nReq, history, build, initError>>

(* -------------------------- PUT /api/posts/:id ------------------------- *)

\* the handler: validation, then db.run(UPDATE ...)
PutReceive(s, id, body) ==
    /\ Accepts(s)
    /\ nReq' = nReq + 1
    /\ LET r == [Idle EXCEPT !.method = "PUT", !.id = id, !.body = body]
       IN  IF Invalid(body)
           THEN /\ last' = ErrorTo(r, 400, "Title and content are required")
                /\ UNCHANGED reqs
           ELSE /\ reqs' = [reqs EXCEPT ![s] = [r EXCEPT !.pc = "run"]]
                /\ UNCHANGED last
    /\ UNCHANGED <<phase, db, posts, seq, now, tz, history, build, initError, exit>>

\* the UPDATE executes and its callback runs
PutRun(s) ==
    /\ phase = "listening"
    /\ reqs[s].method = "PUT" /\ reqs[s].pc = "run"
    /\ \E err \in BOOLEAN :
         IF err
         THEN /\ last' = StorageError(reqs[s], "Failed to update post")
              /\ reqs' = [reqs EXCEPT ![s] = Idle]
              /\ UNCHANGED <<posts, now>>
         ELSE IF NotFound(Changes(posts, reqs[s].id))
         THEN /\ last' = ErrorTo(reqs[s], 404, "Post not found")
              /\ reqs' = [reqs EXCEPT ![s] = Idle]
              /\ UNCHANGED <<posts, now>>
         ELSE /\ now' \in Clock(now)
              /\ posts' = UpdateRows(posts, reqs[s].id, reqs[s].body, now')
              /\ reqs' = [reqs EXCEPT
                            ![s].pc = "get",
                            ![s].prev = GetByParam(posts, reqs[s].id),
                            ![s].stored = GetByParam(posts', reqs[s].id)]
              /\ UNCHANGED last
    /\ UNCHANGED <<phase, db, seq, tz, nReq, history, build, initError, exit>>

\* the read-back SELECT executes and its callback runs
PutGet(s) ==
    /\ phase = "listening"
    /\ reqs[s].method = "PUT" /\ reqs[s].pc = "get"
    /\ \E err \in BOOLEAN :
         IF err
         THEN /\ last' = StorageError(reqs[s], "Failed to fetch updated post")
              /\ reqs' = [reqs EXCEPT ![s] = Idle]
              /\ UNCHANGED <<phase, exit>>
         ELSE LET row == GetByParam(posts, reqs[s].id)
              IN  IF row = NoRow
                  THEN /\ phase' = "crashed"
                       /\ exit' = {1}
                       /\ UNCHANGED <<reqs, last>>
                  ELSE /\ last' = [ResponseTo(reqs[s], 200) EXCEPT
                                       !.post = RowToPost(row, tz)]
                       /\ reqs' = [reqs EXCEPT ![s] = Idle]
                       /\ UNCHANGED <<phase, exit>>
    /\ UNCHANGED <<db, posts, seq, now, tz, nReq, history, build, initError>>

(* ------------------------ DELETE /api/posts/:id ------------------------ *)

\* the handler: db.run(DELETE ...)
DeleteReceive(s, id) ==
    /\ Accepts(s)
    /\ nReq' = nReq + 1
    /\ reqs' = [reqs EXCEPT ![s] =
                  [Idle EXCEPT !.method = "DELETE", !.id = id, !.pc = "run"]]
    /\ UNCHANGED <<phase, db, posts, seq, now, tz, last, history, build,
                   initError, exit>>

\* the DELETE executes and its callback runs
DeleteRun(s) ==
    /\ phase = "listening"
    /\ reqs[s].method = "DELETE" /\ reqs[s].pc = "run"
    /\ reqs' = [reqs EXCEPT ![s] = Idle]
    /\ \E err \in BOOLEAN :
         IF err
         THEN /\ last' = StorageError(reqs[s], "Failed to delete post")
              /\ UNCHANGED <<posts, nDeleted, removed>>
         ELSE IF NotFound(Changes(posts, reqs[s].id))
         THEN /\ last' = ErrorTo(reqs[s], 404, "Post not found")
              /\ UNCHANGED <<posts, nDeleted, removed>>
         ELSE /\ posts' = DeleteRows(posts, reqs[s].id)
              /\ last' = [ResponseTo(reqs[s], 200) EXCEPT
                              !.message = "Post deleted successfully",
                              !.deleted = parseInt(reqs[s].id),
                              !.gone = RowIds(Matching(posts, reqs[s].id))]
              /\ nDeleted' = nDeleted + Changes(posts, reqs[s].id)
              /\ removed' = removed \cup RowIds(Matching(posts, reqs[s].id))
    /\ UNCHANGED <<phase, db, seq, now, tz, nReq, nCreated, everIds, build,
                   initError, exit>>

(* --------------------------- GET /api/posts ---------------------------- *)

\* the handler: db.all(SELECT ...)
GetReceive(s) ==
    /\ Accepts(s)
    /\ nReq' = nReq + 1
    /\ reqs' = [reqs EXCEPT ![s] = [Idle EXCEPT !.method = "GET", !.pc = "all"]]
    /\ UNCHANGED <<phase, db, posts, seq, now, tz, last, history, build,
                   initError, exit>>

\* the SELECT executes and its callback runs
GetAll(s) ==
    /\ phase = "listening"
    /\ reqs[s].method = "GET" /\ reqs[s].pc = "all"
    /\ reqs' = [reqs EXCEPT ![s] = Idle]
    /\ \E err \in BOOLEAN :
         IF err
         THEN last' = StorageError(reqs[s], "Failed to fetch posts")
         ELSE \E rows \in OrderByCreatedAtDesc(posts) :
                last' = [ResponseTo(reqs[s], 200) EXCEPT
                             !.list = RowsToPosts(rows, tz)]
    /\ UNCHANGED <<phase, db, posts, seq, now, tz, nReq, history, build,
                   initError, exit>>

(* --------------------------- specification ----------------------------- *)

Next ==
    \/ OpenDatabase
    \/ CreateTable
    \/ CountRows
    \/ SeedInsert
    \/ StartListening
    \/ \E s \in Slots, body \in Bodies : PostReceive(s, body)
    \/ \E s \in Slots : PostRun(s)
    \/ \E s \in Slots : PostGet(s)
    \/ \E s \in Slots, id \in IdParams, body \in Bodies : PutReceive(s, id, body)
    \/ \E s \in Slots : PutRun(s)
    \/ \E s \in Slots : PutGet(s)
    \/ \E s \in Slots, id \in IdParams : DeleteReceive(s, id)
    \/ \E s \in Slots : DeleteRun(s)
    \/ \E s \in Slots : GetReceive(s)
    \/ \E s \in Slots : GetAll(s)

Spec == Init /\ [][Next]_vars

(* ------------------------------ the claims ----------------------------- *)

\* the responses sent so far: every accepted request not in flight
Answered == nReq - Cardinality(Inflight)

\* this step sends a response
Responds == Answered' = Answered + 1

\* a body property that is absent or empty
AbsentOrEmpty(v) == v = Undefined \/ v = ""

\* a body whose title or content is absent or empty
MissingField(body) == AbsentOrEmpty(body.title) \/ AbsentOrEmpty(body.content)

\* C1: a create or an update whose body has title or content absent or empty
\* is answered 400 with an error body, in the step that receives it, and the
\* posts table (rows and rowid sequence) is the same after as before.
C1_InvalidBodyRejected ==
    [][ (Responds /\ last'.method \in {"POST", "PUT"} /\ MissingField(last'.body))
          => /\ last'.status = 400
             /\ last'.error # ""
             /\ nReq' = nReq + 1
             /\ posts' = posts
             /\ seq' = seq ]_vars

\* C1's case: an update with a missing field was refused on a table with rows
C1_Witness ==
    /\ last.method = "PUT"
    /\ last.status = 400
    /\ MissingField(last.body)
    /\ posts # {}

\* C2: a create with title and content non-empty, answered without a storage
\* error, is answered 201 with a Post whose id is the key the INSERT assigned,
\* whose title and content are the request's, whose author is the request's
\* or "Anonymous" when absent, and whose createdAt equals its updatedAt.
C2_CreateReturnsRequestedPost ==
    (last.method = "POST" /\ ~MissingField(last.body) /\ last.status # 500)
      => /\ last.status = 201
         /\ last.post.id = last.stored.id
         /\ last.post.title = last.body.title
         /\ last.post.content = last.body.content
         /\ last.post.author =
              (IF last.body.author = Undefined THEN "Anonymous"
               ELSE last.body.author)
         /\ last.post.createdAt = last.post.updatedAt

\* C3: the INSERT of a create assigns an id the table never held in this run,
\* greater than every id it has held (deleted ones too), and the 201 carries
\* that id.
C3_IdsIncreaseNeverReused ==
    [][ /\ (nCreated' = nCreated + 1)
            => /\ Cardinality(RowIds(posts') \ RowIds(posts)) = 1
               /\ \A k \in RowIds(posts') \ RowIds(posts) :
                    /\ k \notin everIds
                    /\ k \notin removed
                    /\ \A j \in everIds : j < k
        /\ (Responds /\ last'.method = "POST" /\ last'.status = 201)
            => /\ last'.post.id = last'.stored.id
               /\ last'.post.id \in everIds
               /\ last'.post.id \notin removed ]_vars

\* C3's case: a create answered 201 whose INSERT ran after the post with the
\* highest id had been deleted
C3_Witness ==
    /\ last.method = "POST"
    /\ last.status = 201
    /\ last.topDeleted
    /\ removed # {}

C5_UpdateReflectsRequest ==
    (last.method = "PUT" /\ last.status = 200)
      => /\ last.post.id = last.prev.id
         /\ last.stored.id = last.prev.id
         /\ last.post.createdAt = ToISOString(last.prev.created_at, tz)
         /\ last.stored.created_at = last.prev.created_at
         /\ last.post.updatedAt # ToISOString(last.prev.updated_at, tz)
         /\ last.stored.updated_at # last.prev.updated_at
         /\ last.post.title = last.body.title
         /\ last.stored.title = last.body.title
         /\ last.post.content = last.body.content
         /\ last.stored.content = last.body.content
         /\ last.post.author =
              (IF last.body.author = Undefined THEN "Anonymous"
               ELSE last.body.author)
         /\ last.stored.author = last.post.author

\* the rows the table held when the server began to listen
StartRows == Cardinality(everIds) - nCreated

\* the Posts of a list response, as a set
Listed(list) == { list[i] : i \in 1..Len(list) }

\* C6, as stated: a list answered 200 after N creates and M deletes of this run
\* has exactly N - M rows.
C6_ListCountIsCreatesMinusDeletes ==
    (last.method = "GET" /\ last.status = 200)
      => Len(last.list) = nCreated - nDeleted

\* C6, amended: a list answered 200 holds exactly the posts in the table when
\* its SELECT ran, each once; that is R + N - M rows, R being the rows the table
\* held when the server began to listen (the seed post on a fresh database).
C6_ListIsTheTable ==
    [][ (Responds /\ last'.method = "GET" /\ last'.status = 200)
          => /\ Listed(last'.list) = { RowToPost(r, tz) : r \in posts }
             /\ Len(last'.list) = Cardinality(posts)
             /\ RowIds(posts) \cap removed = {}
             /\ Len(last'.list) = StartRows + nCreated - nDeleted ]_vars

\* C6's case: a list answered with rows after a create or a delete of this run
C6_Witness ==
    /\ last.method = "GET"
    /\ last.status = 200
    /\ nCreated + nDeleted >= 1
    /\ Len(last.list) >= 1

C8_DeleteTwice ==
    [][ (Responds /\ last'.method = "DELETE" /\ last'.status # 500)
          => /\ (\E r \in posts : IdMatches(r.id, last'.id))
                  => /\ last'.status = 200
                     /\ ~ \E r \in posts' : IdMatches(r.id, last'.id)
             /\ last'.again
                  => /\ last'.status = 404
                     /\ last'.error # ""
                     /\ posts' = posts ]_vars

\* C8's case: the second of two deletes of one id in a row was answered 404
C8_Witness ==
    /\ last.method = "DELETE"
    /\ last.again
    /\ last.status = 404

\* C9: a delete answered 200 carries a message and the id of the row it
\* removed, and no list response holds a post that a delete has removed.
C9_DeleteReportsRemovedId ==
    /\ (last.method = "DELETE" /\ last.status = 200)
         => /\ last.message # ""
            /\ last.gone = {last.deleted}
    /\ (last.method = "GET" /\ last.status = 200)
         => \A i \in 1..Len(last.list) : last.list[i].id \notin removed

\* C10: the UPDATE of a request with a valid body whose id matches no row
\* ends the request with 404 and an error body (500 on a storage error) and
\* leaves the table as it was.
C10_UpdateOfMissingPost ==
    [][ \A s \in Slots :
          ( /\ reqs[s].method = "PUT" /\ reqs[s].pc = "run"
            /\ reqs'[s] # reqs[s]
            /\ ~ \E r \in posts : IdMatches(r.id, reqs[s].id) )
          => /\ reqs'[s] = Idle
             /\ last'.method = "PUT" /\ last'.id = reqs[s].id
             /\ last'.status \in {404, 500}
             /\ last'.error # ""
             /\ posts' = posts
             /\ seq' = seq ]_vars

\* C10's case: an update with a valid body was answered 404 on a table with rows
C10_Witness ==
    /\ last.method = "PUT"
    /\ last.status = 404
    /\ ~MissingField(last.body)
    /\ posts # {}

\* where startServer is while initializeDatabase has not been followed by
\* app.listen
Initializing == {"open", "createTable", "count", "seed", "resolved"}

\* C11: startup seeds exactly when the table is empty.  A step of startup that
\* finds at least one row leaves the table as it is, so startup inserts nothing
\* into a table with rows and never a second seed row; and when initialization
\* of an empty table completes, the table holds exactly one post, whose author
\* is "Blog Owner".
C11_SeedsExactlyWhenEmpty ==
    [][ (phase \in Initializing) =>
          /\ (posts # {}) => posts' = posts
          /\ (posts = {} /\ phase' = "resolved") =>
               /\ Cardinality(posts') = 1
               /\ \A r \in posts' : r.author = "Blog Owner"
          /\ (phase' = "resolved") => posts' # {} ]_vars

\* a first startup has completed on a fresh database
C11_Witness ==
    /\ phase = "resolved"
    /\ nReq = 0
    /\ everIds = {1}
    /\ \E r \in posts : posts = {r} /\ r.author = "Blog Owner"


\* this step is a turn of a route handler: it accepts a request, moves one on
\* or answers one
HandlerRuns == nReq' # nReq \/ reqs' # reqs \/ last' # last

\* C12: the initializer runs once and completes before any request is
\* accepted.  startServer never goes back to the first step of initialization,
\* the connection handle is assigned only when initializeDatabase has resolved,
\* the server starts listening only with the handle assigned, and no turn of a
\* route handler runs while the handle is unset or initialization is under way.
C12_InitializedBeforeRequests ==
    [][ /\ (phase # "open") => phase' # "open"
        /\ (db' # db) => (phase = "resolved" /\ db' = TRUE)
        /\ (phase' = "listening") => db' = TRUE
        /\ HandlerRuns => (db = TRUE /\ phase \notin Initializing) ]_vars

\* a request is in the hands of its handler, after initialization
C12_Witness ==
    /\ Inflight # {}
    /\ db = TRUE
    /\ phase = "listening"


\* C13: a failed initialization step aborts startup.  The step that fails
\* leaves the process exited with a non-zero code, the connection handle
\* unset and the server not listening; and after a failure the process takes
\* no further step, so nothing is retried and the server never listens.
C13_FailedStartupExits ==
    [][ /\ initError = ""
        /\ (initError' # "") =>
             /\ exit' # {}
             /\ 0 \notin exit'
             /\ phase' \notin {"listening"} \cup Initializing
             /\ db' = FALSE
             /\ nReq' = 0 ]_vars

\* the last step of initialization, the seed INSERT, has failed
C13_Witness ==
    /\ build = "server.js"
    /\ initError = "seed"
    /\ phase = "exited"
    /\ exit = {1}


\* the texts the handlers answer a failed statement with
FixedMessages ==
    [GET    |-> {"Failed to fetch posts"},
     POST   |-> {"Failed to create post", "Failed to fetch created post"},
     PUT    |-> {"Failed to update post", "Failed to fetch updated post"},
     DELETE |-> {"Failed to delete post"}]

\* C14: a failed statement of a handler is answered with 500 and a fixed
\* message.  The step in which a statement of a request fails sends that
\* request's one response and ends the request, so no other status follows;
\* the status is 500, the error text is one of the handler's own fixed texts
\* and not the driver's, and the response carries no post, list or message.
C14_StorageErrorIsGeneric500 ==
    [][ (last' # last /\ last'.cause # "") =>
          /\ Responds
          /\ \E s \in Slots : reqs[s].pc # "idle" /\ reqs' = [reqs EXCEPT ![s] = Idle]
          /\ last'.status = 500
          /\ last'.error \in FixedMessages[last'.method]
          /\ last'.error # last'.cause
          /\ last'.post = NoPost /\ last'.list = <<>> /\ last'.message = ""
          /\ posts' = posts ]_vars

\* the read-back SELECT of an update has failed and been answered
C14_Witness ==
    /\ last.method = "PUT"
    /\ last.cause = DriverError
    /\ last.status = 500
    /\ last.error = "Failed to fetch updated post"


\* C15: in every interleaving of the statement callbacks, each request
\* receives exactly one response and a successful update answers with the row
\* that update wrote.  As stated: the process never ends with an accepted
\* request unanswered, and the post of a 200 to an update is the row its own
\* UPDATE stored.  The code does not have this property: the read-back SELECT
\* runs in a later turn than the UPDATE, so a DELETE between them leaves it no
\* row (row.id throws, the process ends and the requests in flight get no
\* response) and an UPDATE between them gives it the other request's values.
C15_OneResponseWithOwnValues ==
    /\ (phase = "crashed") => Inflight = {}
    /\ (last.method = "PUT" /\ last.status = 200) =>
         last.post = RowToPost(last.stored, tz)


\* the UPDATE or DELETE of the request in slot s executes in this step
WriteRuns(s) ==
    /\ reqs[s].method \in {"PUT", "DELETE"}
    /\ reqs[s].pc = "run"
    /\ reqs'[s] # reqs[s]

\* C16: an update or a delete of id k changes only the row with id k, and a
\* create changes no existing row.  In every step of the running server, a
\* row that is changed or removed is the one row the :id of an executing
\* UPDATE or DELETE selects; every other row stays in the table with all its
\* columns as they were; a row that appears has the id of the row that was
\* changed, or, in a create, an id no row had; and a create keeps every row.
C16_WritesTouchOnlyTheirRow ==
    [][ (phase = "listening") =>
          /\ Cardinality(posts \ posts') <= 1
          /\ \A r \in posts \ posts' :
               \E s \in Slots : WriteRuns(s) /\ IdMatches(r.id, reqs[s].id)
          /\ \A r \in posts' \ posts :
               IF nCreated' = nCreated + 1
               THEN r.id \notin RowIds(posts)
               ELSE r.id \in RowIds(posts \ posts')
          /\ (nCreated' = nCreated + 1) => posts \subseteq posts'
          /\ (\A s \in Slots : ~WriteRuns(s)) => posts \subseteq posts' ]_vars

\* an update has rewritten its row in a table that holds another row
C16_Witness ==
    /\ last.method = "PUT"
    /\ last.status = 200
    /\ last.stored # last.prev
    /\ \E r \in posts : r.id # last.stored.id


====
